---- MODULE Spec2Model ----
(***************************************************************************)
(* The turn-based core of the snake game (src/game_state/game_state.rs,    *)
(* src/game_state/state/board.rs, src/game_state/state/state.rs,           *)
(* src/game_state/state/value_objects.rs, src/game_state/options.rs).      *)
(*                                                                         *)
(* Positions are pairs <<i, j>> counted from 0 as in the source.  Vec and  *)
(* VecDeque are sequences, so the source's empty[i] is empty[i + 1] here   *)
(* while the indices stored in the cells stay 0-based.  snake[1] is the    *)
(* front of the deque (the head).                                          *)
(***************************************************************************)
EXTENDS Integers, Sequences, FiniteSets, TLC

\* Largest board shape and food count the Options are drawn from.
MaxRows == 3
MaxCols == 3
MaxArea == 6
MaxFoods == 3

\* The largest board area on which the lib.rs GameState is explored.
LibMaxArea == 4

VARIABLES
    N_ROWS,     \* const generic N_ROWS of Options / GameState
    N_COLS,     \* const generic N_COLS
    n_foods,    \* Options::n_foods
    built,      \* "No" before Options::build, then "Ok" or "Err"
    board,      \* State::board
    empty,      \* State::empty
    foods,      \* State::foods
    snake,      \* State::snake
    rng,        \* State::rng: the number of values drawn from the generator
    view,       \* the swap_cell calls made by the latest operation
    panicked,   \* a panic!, expect or assert_eq! of the core fired
    status,     \* the Status returned by the latest iterate_turn
    turn,       \* the latest iterate_turn: direction, next head, matched cell
    probe,      \* one application of a pure function: its inputs and result
    lib_velocity, \* lib.rs GameState::velocity
    result      \* lib.rs: the latest call and the Result it returned

vars == <<N_ROWS, N_COLS, n_foods, built, board, empty, foods, snake, rng,
          view, panicked, status, turn, probe, lib_velocity,
          result>>

----------------------------------------------------------------------------
\* value_objects.rs

None == "None"

Direction == {"Right", "Up", "Left", "Down"}

\* as_velocity with the row and column components exchanged.
as_velocity_transposed(direction) ==
    CASE direction = "Right" -> <<1, 0>>
      [] direction = "Up"    -> <<0, -1>>
      [] direction = "Left"  -> <<-1, 0>>
      [] direction = "Down"  -> <<0, 1>>

as_velocity(direction) ==
    CASE direction = "Right" -> <<0, 1>>
      [] direction = "Up"    -> <<-1, 0>>
      [] direction = "Left"  -> <<0, -1>>
      [] direction = "Down"  -> <<1, 0>>

get_plane(direction) ==
    CASE direction = "Right" -> "Horizontal"
      [] direction = "Up"    -> "Vertical"
      [] direction = "Left"  -> "Horizontal"
      [] direction = "Down"  -> "Vertical"

\* opposite with the Down arm repeating the Up arm's result.
opposite_down_down(direction) ==
    CASE direction = "Right" -> "Left"
      [] direction = "Up"    -> "Down"
      [] direction = "Left"  -> "Right"
      [] direction = "Down"  -> "Down"

opposite(direction) ==
    CASE direction = "Right" -> "Left"
      [] direction = "Up"    -> "Down"
      [] direction = "Left"  -> "Right"
      [] direction = "Down"  -> "Up"

DEFAULT_MAGNITUDE == 1

Empty(index) == [kind |-> "Empty", index |-> index]

Foods(index) == [kind |-> "Foods", index |-> index]

Snake(entry, exit) == [kind |-> "Snake", entry |-> entry, exit |-> exit]

\* impl From<Cell> for dto::Cell: the index of Empty and Foods is dropped.
dto_Cell(cell) ==
    CASE cell.kind = "Empty" -> [kind |-> "Empty"]
      [] cell.kind = "Foods" -> [kind |-> "Foods"]
      [] cell.kind = "Snake" -> cell

Ongoing == [kind |-> "Ongoing"]

Over(is_won) == [kind |-> "Over", is_won |-> is_won]

----------------------------------------------------------------------------
\* board.rs

Positions == (0 .. N_ROWS - 1) \X (0 .. N_COLS - 1)

\* The positions in the order in which the nested iterators visit them.
RowMajor == [k \in 1 .. N_ROWS * N_COLS |->
                <<(k - 1) \div N_COLS, (k - 1) % N_COLS>>]

\* Board::default with the snake put at the origin instead of the centre.
Board_default_origin ==
    [p \in Positions |->
        IF p[1] = 0 /\ p[2] = 0
        THEN Snake(None, None)
        ELSE Empty(p[1] * N_COLS + p[2] - 1)]

\* Board::default: the snake at the centre, Empty(0), Empty(1), ... around it.
Board_default ==
    [p \in Positions |->
        IF p[1] = N_ROWS \div 2 /\ p[2] = N_COLS \div 2
        THEN Snake(None, None)
        ELSE LET rank   == p[1] * N_COLS + p[2]
                 centre == (N_ROWS \div 2) * N_COLS + (N_COLS \div 2)
             IN  Empty(IF centre < rank THEN rank - 1 ELSE rank)]

get_empty(b) == SelectSeq(RowMajor, LAMBDA p : b[p].kind = "Empty")

get_foods(b) == SelectSeq(RowMajor, LAMBDA p : b[p].kind = "Foods")

\* usize::checked_add_signed on an in-bounds coordinate: only the lower end
\* of usize can be crossed, the coordinate being below N_ROWS or N_COLS.
checked_add_signed(u, d) ==
    IF u + d < 0 THEN [some |-> FALSE, val |-> 0]
    ELSE [some |-> TRUE, val |-> u + d]

unwrap_or(option, default) == IF option.some THEN option.val ELSE default

\* move_in falling back to N_ROWS and N_COLS, not to the last row and column.
move_in_off_by_one(position, direction) ==
    LET velocity == as_velocity(direction)
        i == unwrap_or(checked_add_signed(position[1], velocity[1]),
                       N_ROWS) % N_ROWS
        j == unwrap_or(checked_add_signed(position[2], velocity[2]),
                       N_COLS) % N_COLS
    IN  <<i, j>>

move_in(position, direction) ==
    LET velocity == as_velocity(direction)
        i == unwrap_or(checked_add_signed(position[1], velocity[1]),
                       N_ROWS - DEFAULT_MAGNITUDE) % N_ROWS
        j == unwrap_or(checked_add_signed(position[2], velocity[2]),
                       N_COLS - DEFAULT_MAGNITUDE) % N_COLS
    IN  <<i, j>>

\* The first cell in scan order that is a Snake with exit == None.
find_snake_head(b) ==
    LET heads == SelectSeq(RowMajor,
                    LAMBDA p : b[p].kind = "Snake" /\ b[p].exit = None)
    IN  IF heads = <<>> THEN <<>> ELSE <<heads[1]>>

\* The while-let loop of get_snake.  A walk that has collected more positions
\* than the board has cells is on a cycle of entry links and never ends in
\* the source; it is cut here and its overlong result stands for it.
RECURSIVE get_snake_loop(_, _, _)
get_snake_loop(b, position, snake_acc) ==
    IF /\ b[position].kind = "Snake"
       /\ b[position].entry # None
       /\ Len(snake_acc) <= N_ROWS * N_COLS
    THEN LET next == move_in(position, b[position].entry)
         IN  get_snake_loop(b, next, Append(snake_acc, next))
    ELSE snake_acc

\* Board::get_snake; <<>> stands for the panic of expect("snake head").
get_snake(b) ==
    LET head == find_snake_head(b)
    IN  IF head = <<>> THEN <<>>
        ELSE get_snake_loop(b, head[1], <<head[1]>>)

----------------------------------------------------------------------------
\* game_state.rs: the operations work on a record g of the fields of
\* GameState (state.board, state.empty, state.foods, state.snake, state.rng),
\* the view's log, the log of the calls made to the controller and the view
\* (calls) and the panic flag.  A panicked g is passed through.

Self == [board |-> board, empty |-> empty, foods |-> foods, snake |-> snake,
         rng |-> rng, view |-> <<>>, calls |-> <<>>, panicked |-> panicked]

Panic(g) == [g EXCEPT !.panicked = TRUE]

\* A removal that truncates the vector without moving its last element.
swap_remove_truncate(vec, index) ==
    [k \in 1 .. Len(vec) - 1 |-> vec[k]]

\* A removal that keeps the order of the remaining elements (Vec::remove).
swap_remove_shift(vec, index) ==
    [k \in 1 .. Len(vec) - 1 |-> IF k <= index THEN vec[k] ELSE vec[k + 1]]

\* Vec::swap_remove(index): the last element takes the place of the removed.
swap_remove(vec, index) ==
    LET last == Len(vec)
    IN  [k \in 1 .. last - 1 |-> IF k = index + 1 THEN vec[last] ELSE vec[k]]

\* A notification with old and new exchanged.
swap_cell_exchanged(g, position, old, new) ==
    [g EXCEPT !.view = Append(@, <<position, new, old>>),
              !.calls = Append(@, "swap_cell")]

swap_cell(g, position, old, new) ==
    [g EXCEPT !.view = Append(@, <<position, old, new>>),
              !.calls = Append(@, "swap_cell")]

\* The controller asked twice in one turn.
get_direction_twice(g) ==
    [g EXCEPT !.calls = Append(Append(@, "get_direction"), "get_direction")]

\* self.controller.get_direction(): the call is logged; the direction it
\* yields is the caller's choice.
get_direction(g) == [g EXCEPT !.calls = Append(@, "get_direction")]

\* check_is_won_status that forgets the food still on the board.
check_is_won_status_empty_only(g) ==
    IF g.empty = <<>> THEN Over(TRUE) ELSE Ongoing

check_is_won_status(g) ==
    IF g.foods = <<>> /\ g.empty = <<>> THEN Over(TRUE) ELSE Ongoing

\* remove_last_tail that leaves the tail on the deque.
remove_last_tail_unpopped(g) ==
    IF g.panicked THEN g
    ELSE IF g.snake = <<>> THEN Panic(g)
    ELSE LET last_tail == g.snake[Len(g.snake)]
             cell      == g.board[last_tail]
             old       == dto_Cell(cell)
         IN  IF cell.kind = "Snake" /\ cell.entry = None
             THEN swap_cell(
                    [g EXCEPT !.board[last_tail] = Empty(Len(g.empty)),
                              !.empty = Append(@, last_tail)],
                    last_tail, old, [kind |-> "Empty"])
             ELSE Panic(g)

\* remove_last_tail that does not return the vacated position to empty.
remove_last_tail_unlisted(g) ==
    IF g.panicked THEN g
    ELSE IF g.snake = <<>> THEN Panic(g)
    ELSE LET last_tail == g.snake[Len(g.snake)]
             cell      == g.board[last_tail]
             old       == dto_Cell(cell)
         IN  IF cell.kind = "Snake" /\ cell.entry = None
             THEN swap_cell(
                    [g EXCEPT !.snake = SubSeq(@, 1, Len(@) - 1),
                              !.board[last_tail] = Empty(Len(g.empty))],
                    last_tail, old, [kind |-> "Empty"])
             ELSE Panic(g)

remove_last_tail(g) ==
    IF g.panicked THEN g
    ELSE IF g.snake = <<>> THEN Panic(g)
    ELSE LET last_tail == g.snake[Len(g.snake)]
             cell      == g.board[last_tail]
             old       == dto_Cell(cell)
         IN  IF cell.kind = "Snake" /\ cell.entry = None
             THEN swap_cell(
                    [g EXCEPT !.snake = SubSeq(@, 1, Len(@) - 1),
                              !.board[last_tail] = Empty(Len(g.empty)),
                              !.empty = Append(@, last_tail)],
                    last_tail, old, [kind |-> "Empty"])
             ELSE Panic(g)

\* update_next_tail that leaves the entry of the new tail in place.
update_next_tail_keep_entry(g) ==
    IF g.panicked THEN g
    ELSE IF g.snake = <<>> THEN Panic(g)
    ELSE LET next_tail == g.snake[Len(g.snake)]
             cell      == g.board[next_tail]
             old       == dto_Cell(cell)
         IN  IF cell.kind = "Snake"
             THEN swap_cell(g, next_tail, old, dto_Cell(cell))
             ELSE Panic(g)

update_next_tail(g) ==
    IF g.panicked THEN g
    ELSE IF g.snake = <<>> THEN Panic(g)
    ELSE LET next_tail == g.snake[Len(g.snake)]
             cell      == g.board[next_tail]
             old       == dto_Cell(cell)
         IN  IF cell.kind = "Snake"
             THEN LET new == Snake(None, cell.exit)
                  IN  swap_cell([g EXCEPT !.board[next_tail] = new],
                                next_tail, old, dto_Cell(new))
             ELSE Panic(g)

\* remove_empty without the patch of the position moved into the slot.
remove_empty_unpatched(g, next_head, empty_index) ==
    IF g.panicked THEN g
    ELSE IF empty_index >= Len(g.empty) THEN Panic(g)
    ELSE IF g.empty[empty_index + 1] # next_head THEN Panic(g)
    ELSE [g EXCEPT !.empty = swap_remove(g.empty, empty_index)]

remove_empty(g, next_head, empty_index) ==
    IF g.panicked THEN g
    ELSE IF empty_index >= Len(g.empty) THEN Panic(g)
    ELSE IF g.empty[empty_index + 1] # next_head THEN Panic(g)
    ELSE LET e == swap_remove(g.empty, empty_index)
         IN  IF empty_index < Len(e)
             THEN [g EXCEPT !.empty = e,
                            !.board[e[empty_index + 1]] = Empty(empty_index)]
             ELSE [g EXCEPT !.empty = e]

\* remove_foods that leaves the stale index in the cell of the moved food.
remove_foods_unpatched(g, next_head, foods_index) ==
    IF g.panicked THEN g
    ELSE IF foods_index >= Len(g.foods) THEN Panic(g)
    ELSE IF g.foods[foods_index + 1] # next_head THEN Panic(g)
    ELSE [g EXCEPT !.foods = swap_remove(g.foods, foods_index)]

remove_foods(g, next_head, foods_index) ==
    IF g.panicked THEN g
    ELSE IF foods_index >= Len(g.foods) THEN Panic(g)
    ELSE IF g.foods[foods_index + 1] # next_head THEN Panic(g)
    ELSE LET f == swap_remove(g.foods, foods_index)
         IN  IF foods_index < Len(f)
             THEN [g EXCEPT !.foods = f,
                            !.board[f[foods_index + 1]] = Foods(foods_index)]
             ELSE [g EXCEPT !.foods = f]

\* insert_snake_head that marks the cell but does not push it on the deque.
insert_snake_head_unpushed(g, next_head, entry) ==
    IF g.panicked THEN g
    ELSE LET cell == g.board[next_head]
             old  == dto_Cell(cell)
             g1   == CASE cell.kind = "Empty" ->
                            remove_empty(g, next_head, cell.index)
                       [] cell.kind = "Foods" ->
                            remove_foods(g, next_head, cell.index)
                       [] cell.kind = "Snake" -> Panic(g)
             new  == Snake(entry, None)
         IN  IF g1.panicked THEN g1
             ELSE swap_cell([g1 EXCEPT !.board[next_head] = new],
                            next_head, old, dto_Cell(new))

\* insert_snake_head that leaves the new head without its entry link.
insert_snake_head_no_entry(g, next_head, entry) ==
    IF g.panicked THEN g
    ELSE LET cell == g.board[next_head]
             old  == dto_Cell(cell)
             g1   == CASE cell.kind = "Empty" ->
                            remove_empty(g, next_head, cell.index)
                       [] cell.kind = "Foods" ->
                            remove_foods(g, next_head, cell.index)
                       [] cell.kind = "Snake" -> Panic(g)
             new  == Snake(None, None)
         IN  IF g1.panicked THEN g1
             ELSE swap_cell(
                    [g1 EXCEPT !.board[next_head] = new,
                               !.snake = <<next_head>> \o @],
                    next_head, old, dto_Cell(new))

insert_snake_head(g, next_head, entry) ==
    IF g.panicked THEN g
    ELSE LET cell == g.board[next_head]
             old  == dto_Cell(cell)
             g1   == CASE cell.kind = "Empty" ->
                            remove_empty(g, next_head, cell.index)
                       [] cell.kind = "Foods" ->
                            remove_foods(g, next_head, cell.index)
                       [] cell.kind = "Snake" -> Panic(g)
             new  == Snake(entry, None)
         IN  IF g1.panicked THEN g1
             ELSE swap_cell(
                    [g1 EXCEPT !.board[next_head] = new,
                               !.snake = <<next_head>> \o @],
                    next_head, old, dto_Cell(new))

\* update_last_head that writes the exit and loses the entry of the cell.
update_last_head_drop_entry(g, direction) ==
    IF g.panicked THEN g
    ELSE IF g.snake = <<>> THEN Panic(g)
    ELSE LET last_head == g.snake[1]
             cell      == g.board[last_head]
             old       == dto_Cell(cell)
         IN  IF cell.kind = "Snake" /\ cell.exit = None
             THEN LET new == Snake(None, direction)
                  IN  swap_cell([g EXCEPT !.board[last_head] = new],
                                last_head, old, dto_Cell(new))
             ELSE Panic(g)

\* update_last_head that does not tell the view.
update_last_head_silent(g, direction) ==
    IF g.panicked THEN g
    ELSE IF g.snake = <<>> THEN Panic(g)
    ELSE LET last_head == g.snake[1]
             cell      == g.board[last_head]
         IN  IF cell.kind = "Snake" /\ cell.exit = None
             THEN [g EXCEPT !.board[last_head] = Snake(cell.entry, direction)]
             ELSE Panic(g)

update_last_head(g, direction) ==
    IF g.panicked THEN g
    ELSE IF g.snake = <<>> THEN Panic(g)
    ELSE LET last_head == g.snake[1]
             cell      == g.board[last_head]
             old       == dto_Cell(cell)
         IN  IF cell.kind = "Snake" /\ cell.exit = None
             THEN LET new == Snake(cell.entry, direction)
                  IN  swap_cell([g EXCEPT !.board[last_head] = new],
                                last_head, old, dto_Cell(new))
             ELSE Panic(g)

\* rng.gen_range(0..n) for the generator's next word.
gen_range(word, n) == word % n

\* insert_food that stores the length of foods after the push as the index.
insert_food_index_after_push(g, word) ==
    IF g.panicked THEN [game |-> g, result |-> "Ok"]
    ELSE IF g.empty = <<>> THEN [game |-> g, result |-> "MaxFoods"]
    ELSE LET empty_index == gen_range(word, Len(g.empty))
             position    == g.empty[empty_index + 1]
             e           == swap_remove(g.empty, empty_index)
             g1          == IF empty_index < Len(e)
                            THEN [g EXCEPT !.rng = @ + 1, !.empty = e,
                                    !.board[e[empty_index + 1]] =
                                        Empty(empty_index)]
                            ELSE [g EXCEPT !.rng = @ + 1, !.empty = e]
             foods_index == Len(g1.foods) + 1
             g2          == [g1 EXCEPT !.board[position] = Foods(foods_index),
                                       !.foods = Append(@, position)]
         IN  [game   |-> swap_cell(g2, position, [kind |-> "Empty"],
                                   [kind |-> "Foods"]),
              result |-> "Ok"]

\* insert_food that draws two words from the generator for one placement.
insert_food_draw_twice(g, word) ==
    IF g.panicked THEN [game |-> g, result |-> "Ok"]
    ELSE IF g.empty = <<>> THEN [game |-> g, result |-> "MaxFoods"]
    ELSE LET empty_index == gen_range(word, Len(g.empty))
             position    == g.empty[empty_index + 1]
             e           == swap_remove(g.empty, empty_index)
             g1          == IF empty_index < Len(e)
                            THEN [g EXCEPT !.rng = @ + 2, !.empty = e,
                                    !.board[e[empty_index + 1]] =
                                        Empty(empty_index)]
                            ELSE [g EXCEPT !.rng = @ + 2, !.empty = e]
             foods_index == Len(g1.foods)
             g2          == [g1 EXCEPT !.board[position] = Foods(foods_index),
                                       !.foods = Append(@, position)]
         IN  [game   |-> swap_cell(g2, position, [kind |-> "Empty"],
                                   [kind |-> "Foods"]),
              result |-> "Ok"]

\* insert_food that draws from the generator before it looks at empty.
insert_food_draw_first(g, word) ==
    IF g.panicked THEN [game |-> g, result |-> "Ok"]
    ELSE IF g.empty = <<>>
    THEN [game |-> [g EXCEPT !.rng = @ + 1], result |-> "MaxFoods"]
    ELSE LET empty_index == gen_range(word, Len(g.empty))
             position    == g.empty[empty_index + 1]
             e           == swap_remove(g.empty, empty_index)
             g1          == IF empty_index < Len(e)
                            THEN [g EXCEPT !.rng = @ + 1, !.empty = e,
                                    !.board[e[empty_index + 1]] =
                                        Empty(empty_index)]
                            ELSE [g EXCEPT !.rng = @ + 1, !.empty = e]
             foods_index == Len(g1.foods)
             g2          == [g1 EXCEPT !.board[position] = Foods(foods_index),
                                       !.foods = Append(@, position)]
         IN  [game   |-> swap_cell(g2, position, [kind |-> "Empty"],
                                   [kind |-> "Foods"]),
              result |-> "Ok"]

\* insert_food that marks the drawn cell as food but leaves it in empty.
insert_food_keep_empty(g, word) ==
    IF g.panicked THEN [game |-> g, result |-> "Ok"]
    ELSE IF g.empty = <<>> THEN [game |-> g, result |-> "MaxFoods"]
    ELSE LET empty_index == gen_range(word, Len(g.empty))
             position    == g.empty[empty_index + 1]
             foods_index == Len(g.foods)
             g2          == [g EXCEPT !.rng = @ + 1,
                                      !.board[position] = Foods(foods_index),
                                      !.foods = Append(@, position)]
         IN  [game   |-> swap_cell(g2, position, [kind |-> "Empty"],
                                   [kind |-> "Foods"]),
              result |-> "Ok"]

\* insert_food with the generator's next word: the game and the Result.
insert_food(g, word) ==
    IF g.panicked THEN [game |-> g, result |-> "Ok"]
    ELSE IF g.empty = <<>> THEN [game |-> g, result |-> "MaxFoods"]
    ELSE LET empty_index == gen_range(word, Len(g.empty))
             position    == g.empty[empty_index + 1]
             e           == swap_remove(g.empty, empty_index)
             g1          == IF empty_index < Len(e)
                            THEN [g EXCEPT !.rng = @ + 1, !.empty = e,
                                    !.board[e[empty_index + 1]] =
                                        Empty(empty_index)]
                            ELSE [g EXCEPT !.rng = @ + 1, !.empty = e]
             foods_index == Len(g1.foods)
             g2          == [g1 EXCEPT !.board[position] = Foods(foods_index),
                                       !.foods = Append(@, position)]
         IN  [game   |-> swap_cell(g2, position, [kind |-> "Empty"],
                                   [kind |-> "Foods"]),
              result |-> "Ok"]

get_next_head(g, direction) == move_in(g.snake[1], direction)

\* iterate_turn whose Snake arm asks check_is_won_status for the Status.
iterate_turn_collision_status(g, direction, word) ==
    LET g0        == get_direction(g)
        next_head == get_next_head(g0, direction)
        cell      == g0.board[next_head]
    IN  CASE cell.kind = "Empty" ->
               LET g1    == remove_last_tail(g0)
                   g2    == IF g1.snake = <<>> THEN g1
                            ELSE update_last_head(update_next_tail(g1),
                                                  direction)
                   entry == IF g1.snake = <<>> THEN None
                            ELSE opposite(direction)
               IN  [game   |-> insert_snake_head(g2, next_head, entry),
                    status |-> Ongoing, food |-> None]
          [] cell.kind = "Foods" ->
               LET g1 == update_last_head(g0, direction)
                   g2 == insert_snake_head(g1, next_head, opposite(direction))
                   r  == insert_food(g2, word)
               IN  [game   |-> r.game,
                    status |-> check_is_won_status(r.game),
                    food   |-> r.result]
          [] cell.kind = "Snake" ->
               [game |-> g0, status |-> check_is_won_status(g0),
                food |-> None]

\* iterate_turn whose Empty arm links the new head to a predecessor even when
\* the snake has a single segment.
iterate_turn_always_linked(g, direction, word) ==
    LET g0        == get_direction(g)
        next_head == get_next_head(g0, direction)
        cell      == g0.board[next_head]
    IN  CASE cell.kind = "Empty" ->
               LET g1    == remove_last_tail(g0)
                   g2    == IF g1.snake = <<>> THEN g1
                            ELSE update_last_head(update_next_tail(g1),
                                                  direction)
                   entry == opposite(direction)
               IN  [game   |-> insert_snake_head(g2, next_head, entry),
                    status |-> Ongoing, food |-> None]
          [] cell.kind = "Foods" ->
               LET g1 == update_last_head(g0, direction)
                   g2 == insert_snake_head(g1, next_head, opposite(direction))
                   r  == insert_food(g2, word)
               IN  [game   |-> r.game,
                    status |-> check_is_won_status(r.game),
                    food   |-> r.result]
          [] cell.kind = "Snake" ->
               [game |-> g0, status |-> Over(FALSE), food |-> None]

\* iterate_turn whose Empty arm takes the next cell out of empty and inserts
\* the new head before it removes the old tail.
iterate_turn_remove_first(g, direction, word) ==
    LET g0        == get_direction(g)
        next_head == get_next_head(g0, direction)
        cell      == g0.board[next_head]
    IN  CASE cell.kind = "Empty" ->
               LET single == Len(g0.snake) = 1
                   g1     == IF single THEN g0
                             ELSE update_last_head(g0, direction)
                   entry  == IF single THEN None ELSE opposite(direction)
                   g2     == insert_snake_head(g1, next_head, entry)
                   g3     == remove_last_tail(g2)
               IN  [game   |-> IF single THEN g3 ELSE update_next_tail(g3),
                    status |-> Ongoing, food |-> None]
          [] cell.kind = "Foods" ->
               LET g1 == update_last_head(g0, direction)
                   g2 == insert_snake_head(g1, next_head, opposite(direction))
                   r  == insert_food(g2, word)
               IN  [game   |-> r.game,
                    status |-> check_is_won_status(r.game),
                    food   |-> r.result]
          [] cell.kind = "Snake" ->
               [game |-> g0, status |-> Over(FALSE), food |-> None]

\* iterate_turn whose Snake arm removes the tail before it reports Over.
iterate_turn_collision_pops(g, direction, word) ==
    LET g0        == get_direction(g)
        next_head == get_next_head(g0, direction)
        cell      == g0.board[next_head]
    IN  CASE cell.kind = "Empty" ->
               LET g1    == remove_last_tail(g0)
                   g2    == IF g1.snake = <<>> THEN g1
                            ELSE update_last_head(update_next_tail(g1),
                                                  direction)
                   entry == IF g1.snake = <<>> THEN None
                            ELSE opposite(direction)
               IN  [game   |-> insert_snake_head(g2, next_head, entry),
                    status |-> Ongoing, food |-> None]
          [] cell.kind = "Foods" ->
               LET g1 == update_last_head(g0, direction)
                   g2 == insert_snake_head(g1, next_head, opposite(direction))
                   r  == insert_food(g2, word)
               IN  [game   |-> r.game,
                    status |-> check_is_won_status(r.game),
                    food   |-> r.result]
          [] cell.kind = "Snake" ->
               [game |-> remove_last_tail(g0), status |-> Over(FALSE),
                food |-> None]

\* iterate_turn that vacates the tail before it inspects the next cell.
iterate_turn_tail_first(g, direction, word) ==
    LET g0        == get_direction(g)
        next_head == get_next_head(g0, direction)
        g1        == remove_last_tail(g0)
        cell      == g1.board[next_head]
    IN  CASE cell.kind = "Empty" ->
               LET g2    == IF g1.snake = <<>> THEN g1
                            ELSE update_last_head(update_next_tail(g1),
                                                  direction)
                   entry == IF g1.snake = <<>> THEN None
                            ELSE opposite(direction)
               IN  [game   |-> insert_snake_head(g2, next_head, entry),
                    status |-> Ongoing, food |-> None]
          [] cell.kind = "Foods" ->
               LET g2 == update_last_head(g0, direction)
                   g3 == insert_snake_head(g2, next_head, opposite(direction))
                   r  == insert_food(g3, word)
               IN  [game   |-> r.game,
                    status |-> check_is_won_status(r.game),
                    food   |-> r.result]
          [] cell.kind = "Snake" ->
               [game |-> g0, status |-> Over(FALSE), food |-> None]

\* iterate_turn for the direction the controller yields and the generator's
\* next word: the game after the turn, the returned Status and the Result of
\* the insert_food the turn made (None when it made none).
iterate_turn(g, direction, word) ==
    LET g0        == get_direction(g)
        next_head == get_next_head(g0, direction)
        cell      == g0.board[next_head]
    IN  CASE cell.kind = "Empty" ->
               LET g1    == remove_last_tail(g0)
                   g2    == IF g1.snake = <<>> THEN g1
                            ELSE update_last_head(update_next_tail(g1),
                                                  direction)
                   entry == IF g1.snake = <<>> THEN None
                            ELSE opposite(direction)
               IN  [game   |-> insert_snake_head(g2, next_head, entry),
                    status |-> Ongoing, food |-> None]
          [] cell.kind = "Foods" ->
               LET g1 == update_last_head(g0, direction)
                   g2 == insert_snake_head(g1, next_head, opposite(direction))
                   r  == insert_food(g2, word)
               IN  [game   |-> r.game,
                    status |-> check_is_won_status(r.game),
                    food   |-> r.result]
          [] cell.kind = "Snake" ->
               [game |-> g0, status |-> Over(FALSE), food |-> None]

----------------------------------------------------------------------------
\* options.rs and the Options impl of game_state.rs

area == N_ROWS * N_COLS

n_non_empty == n_foods + 1

\* is_valid with a strict comparison.
is_valid_strict == area > n_non_empty

is_valid == area >= n_non_empty

\* State::new over the board, with a freshly seeded generator.
get_init_game_state(b) ==
    [board |-> b, empty |-> get_empty(b), foods |-> get_foods(b),
     snake |-> get_snake(b), rng |-> 0, view |-> <<>>, calls |-> <<>>,
     panicked |-> get_snake(b) = <<>>]

\* add_foods that stocks one food less than requested.
RECURSIVE add_foods_one_short(_, _)
add_foods_one_short(g, words) ==
    IF Len(words) <= 1 \/ g.panicked THEN g
    ELSE LET r == insert_food(g, Head(words))
         IN  IF r.result = "MaxFoods" THEN Panic(g)
             ELSE add_foods_one_short(r.game, Tail(words))

\* The loop of add_foods, words[k] being the word the k-th insert_food draws;
\* expect("room for foods") panics on Err(MaxFoods).
RECURSIVE add_foods(_, _)
add_foods(g, words) ==
    IF words = <<>> \/ g.panicked THEN g
    ELSE LET r == insert_food(g, Head(words))
         IN  IF r.result = "MaxFoods" THEN Panic(g)
             ELSE add_foods(r.game, Tail(words))

from_options(words) == add_foods(get_init_game_state(Board_default), words)

----------------------------------------------------------------------------
\* The state machine

NoStatus == [kind |-> "None"]

NoTurn == [direction |-> None, next_head |-> <<>>, cell |-> None,
           food |-> None, calls |-> <<>>]

NoProbe == [position |-> <<>>, direction |-> None, result |-> <<>>]

NoResult == [op |-> None, direction |-> None, value |-> None]

\* Options::<N_ROWS, N_COLS>::with_seed(n_foods, seed), not yet built.
Init ==
    /\ N_ROWS \in 1 .. MaxRows
    /\ N_COLS \in 1 .. MaxCols
    /\ N_ROWS * N_COLS <= MaxArea
    /\ n_foods \in 0 .. MaxFoods
    /\ built = "No"
    /\ board = <<>>
    /\ empty = <<>>
    /\ foods = <<>>
    /\ snake = <<>>
    /\ rng = 0
    /\ view = <<>>
    /\ panicked = FALSE
    /\ status = NoStatus
    /\ turn = NoTurn
    /\ probe = NoProbe
    /\ lib_velocity = <<0, 0>>
    /\ result = NoResult

Install(g) ==
    /\ board' = g.board
    /\ empty' = g.empty
    /\ foods' = g.foods
    /\ snake' = g.snake
    /\ rng' = g.rng
    /\ view' = g.view
    /\ panicked' = g.panicked

\* Options::build
Build ==
    /\ built = "No"
    /\ IF is_valid
       THEN /\ built' = "Ok"
            /\ \E words \in [1 .. n_foods -> 0 .. area - 1] :
                   Install(from_options(words))
       ELSE /\ built' = "Err"
            /\ UNCHANGED <<board, empty, foods, snake, rng, view, panicked>>
    /\ UNCHANGED <<N_ROWS, N_COLS, n_foods, status, turn, probe,
                   lib_velocity, result>>

\* GameState::iterate_turn
IterateTurn ==
    /\ built = "Ok"
    /\ ~panicked
    /\ \E direction \in Direction, word \in 0 .. area - 1 :
          LET r == iterate_turn(Self, direction, word)
          IN  /\ Install(r.game)
              /\ status' = IF r.game.panicked THEN status ELSE r.status
              /\ turn' = [direction |-> direction,
                          next_head |-> get_next_head(Self, direction),
                          cell      |-> board[get_next_head(Self, direction)].kind,
                          food      |-> r.food,
                          calls     |-> r.game.calls]
    /\ UNCHANGED <<N_ROWS, N_COLS, n_foods, built, probe, lib_velocity,
          result>>

Next == Build \/ IterateTurn

Spec == Init /\ [][Next]_vars

----------------------------------------------------------------------------
\* Board::move_in on its own: a board shape, an in-bounds position and a
\* direction are drawn, and MoveIn applies the function to them.

InitMoveIn ==
    /\ N_ROWS \in 1 .. MaxRows
    /\ N_COLS \in 1 .. MaxCols
    /\ N_ROWS * N_COLS <= MaxArea
    /\ n_foods = 0
    /\ built = "No"
    /\ board = <<>>
    /\ empty = <<>>
    /\ foods = <<>>
    /\ snake = <<>>
    /\ rng = 0
    /\ view = <<>>
    /\ panicked = FALSE
    /\ status = NoStatus
    /\ turn = NoTurn
    /\ probe \in {[position |-> p, direction |-> d, result |-> <<>>] :
                     p \in Positions, d \in Direction}
    /\ lib_velocity = <<0, 0>>
    /\ result = NoResult

MoveIn ==
    /\ probe.result = <<>>
    /\ probe' = [probe EXCEPT !.result = move_in(probe.position,
                                                  probe.direction)]
    /\ UNCHANGED <<N_ROWS, N_COLS, n_foods, built, board, empty, foods, snake,
                   rng, view, panicked, status, turn, lib_velocity,
                   result>>

NextMoveIn == MoveIn

SpecMoveIn == InitMoveIn /\ [][NextMoveIn]_vars

----------------------------------------------------------------------------
\* impl From<[[dto::Cell; N_COLS]; N_ROWS]> for Board on its own: a shape and
\* a dto grid are drawn, and FromDto converts the grid.

\* The rows and their cells are mapped in order, with one running counter for
\* the Empty cells and one for the Foods cells: the cells of RowMajor[k ..].
RECURSIVE from_dto_map(_, _, _, _)
from_dto_map(grid, k, empty_count, foods_count) ==
    IF k > Len(RowMajor) THEN <<>>
    ELSE LET cell == grid[RowMajor[k]]
         IN  CASE cell.kind = "Empty" ->
                    <<Empty(empty_count)>> \o
                    from_dto_map(grid, k + 1, empty_count + 1, foods_count)
               [] cell.kind = "Foods" ->
                    <<Foods(foods_count)>> \o
                    from_dto_map(grid, k + 1, empty_count, foods_count + 1)
               [] cell.kind = "Snake" ->
                    <<Snake(cell.entry, cell.exit)>> \o
                    from_dto_map(grid, k + 1, empty_count, foods_count)

\* The same scan with a single counter shared by Empty and Foods cells.
RECURSIVE from_dto_map_one_count(_, _, _)
from_dto_map_one_count(grid, k, count) ==
    IF k > Len(RowMajor) THEN <<>>
    ELSE LET cell == grid[RowMajor[k]]
         IN  CASE cell.kind = "Empty" ->
                    <<Empty(count)>> \o
                    from_dto_map_one_count(grid, k + 1, count + 1)
               [] cell.kind = "Foods" ->
                    <<Foods(count)>> \o
                    from_dto_map_one_count(grid, k + 1, count + 1)
               [] cell.kind = "Snake" ->
                    <<Snake(cell.entry, cell.exit)>> \o
                    from_dto_map_one_count(grid, k + 1, count)

\* Board::from that numbers Empty and Foods cells with one counter.
Board_from_one_count(grid) ==
    LET cells == from_dto_map_one_count(grid, 1, 0)
    IN  [p \in Positions |-> cells[p[1] * N_COLS + p[2] + 1]]

Board_from(grid) ==
    LET cells == from_dto_map(grid, 1, 0, 0)
    IN  [p \in Positions |-> cells[p[1] * N_COLS + p[2] + 1]]

\* The dto grids drawn: Empty, Foods and Snake cells, the Snake cells with
\* the four paths of the grid of board.rs tests (the conversion copies the
\* path as it is).
InitFromDto ==
    /\ N_ROWS \in 1 .. MaxRows
    /\ N_COLS \in 1 .. MaxCols
    /\ N_ROWS * N_COLS <= MaxArea
    /\ n_foods = 0
    /\ built = "No"
    /\ board = <<>>
    /\ empty = <<>>
    /\ foods = <<>>
    /\ snake = <<>>
    /\ rng = 0
    /\ view = <<>>
    /\ panicked = FALSE
    /\ status = NoStatus
    /\ turn = NoTurn
    /\ probe \in {[grid |-> grid, result |-> <<>>] :
                    grid \in [Positions ->
                                {[kind |-> "Empty"], [kind |-> "Foods"],
                                 Snake("Down", None), Snake(None, "Up"),
                                 Snake("Left", "Right"), Snake(None, None)}]}
    /\ lib_velocity = <<0, 0>>
    /\ result = NoResult

FromDto ==
    /\ probe.result = <<>>
    /\ probe' = [probe EXCEPT !.result = Board_from(probe.grid)]
    /\ UNCHANGED <<N_ROWS, N_COLS, n_foods, built, board, empty, foods, snake,
                   rng, view, panicked, status, turn, lib_velocity, result>>

NextFromDto == FromDto

SpecFromDto == InitFromDto /\ [][NextFromDto]_vars

----------------------------------------------------------------------------
\* lib.rs: the earlier GameState, which stores its status and its velocity
\* and is steered by set_direction.  Its cells carry no path.  Names that the
\* core also uses carry the prefix lib_.

lib_DEFAULT_MAGNITUDE == 1

lib_Snake == [kind |-> "Snake"]

lib_Empty(index) == [kind |-> "Empty", index |-> index]

Food(index) == [kind |-> "Food", index |-> index]

is_vertical(v) == v[1] # 0 /\ v[2] = 0

\* is_moving that takes every velocity for a heading.
is_moving_always(v) == TRUE

is_moving(v) == v[1] # 0 \/ v[2] # 0

from_direction(direction) ==
    CASE direction = "Up"    -> <<-lib_DEFAULT_MAGNITUDE, 0>>
      [] direction = "Left"  -> <<0, -lib_DEFAULT_MAGNITUDE>>
      [] direction = "Right" -> <<0, lib_DEFAULT_MAGNITUDE>>
      [] direction = "Down"  -> <<lib_DEFAULT_MAGNITUDE, 0>>

is_valid_board_size ==
    LET is_valid_n_rows == N_ROWS >= lib_DEFAULT_MAGNITUDE
        is_valid_n_cols == N_COLS >= lib_DEFAULT_MAGNITUDE
        n_cells         == N_ROWS * N_COLS
        n_snake         == 1
    IN  is_valid_n_rows /\ is_valid_n_cols /\ n_cells >= n_snake + n_foods

get_head == <<N_ROWS \div 2, N_COLS \div 2>>

\* Options::get_board: the index of a cell is computed with n_rows as the
\* row stride, as the source does.
get_board ==
    LET head_index == get_head[1] * N_ROWS + get_head[2]
    IN  [p \in Positions |->
            LET index == p[1] * N_ROWS + p[2]
            IN  IF index < head_index THEN lib_Empty(index)
                ELSE IF index = head_index THEN lib_Snake
                ELSE lib_Empty(index - 1)]

lib_get_empty == SelectSeq(RowMajor, LAMBDA p : get_board[p].kind = "Empty")

lib_get_snake == <<get_head>>

lib_get_foods == <<>>

\* The lib.rs GameState: status, rng, velocity, board, snake, empty, foods.
LibSelf == [status |-> status, rng |-> rng, velocity |-> lib_velocity,
            board |-> board, snake |-> snake, empty |-> empty,
            foods |-> foods, panicked |-> panicked]

\* set_direction that rejects only the current heading itself.
set_direction_same_only(g, direction) ==
    LET v == from_direction(direction)
    IN  IF is_moving(g.velocity) /\ v = g.velocity
        THEN [game |-> g, value |-> "InvalidDirection"]
        ELSE [game |-> [g EXCEPT !.velocity = v], value |-> "Ok"]

set_direction(g, direction) ==
    LET v == from_direction(direction)
    IN  IF is_moving(g.velocity) /\ is_vertical(v) = is_vertical(g.velocity)
        THEN [game |-> g, value |-> "InvalidDirection"]
        ELSE [game |-> [g EXCEPT !.velocity = v], value |-> "Ok"]

\* check_status that lets every call through.
check_status_ignored(g) == "Ok"

check_status(g) ==
    IF g.status.kind = "Ongoing" THEN "Ok" ELSE "GameIsOver"

get_new_snake_head(g) ==
    LET i_0 == g.snake[1][1]
        j_0 == g.snake[1][2]
        d_i == g.velocity[1]
        d_j == g.velocity[2]
        i_1 == unwrap_or(checked_add_signed(i_0, d_i),
                         N_ROWS - lib_DEFAULT_MAGNITUDE) % N_ROWS
        j_1 == unwrap_or(checked_add_signed(j_0, d_j),
                         N_COLS - lib_DEFAULT_MAGNITUDE) % N_COLS
    IN  <<i_1, j_1>>

is_won(g) == g.empty = <<>> /\ g.foods = <<>>

end_game(g) == [g EXCEPT !.status = Over(is_won(g))]

\* Vec::swap_remove panics on an index that is out of bounds.
lib_remove_empty(g, empty_index) ==
    IF g.panicked THEN g
    ELSE IF empty_index >= Len(g.empty) THEN Panic(g)
    ELSE LET e == swap_remove(g.empty, empty_index)
         IN  IF empty_index < Len(e)
             THEN [g EXCEPT !.empty = e,
                            !.board[e[empty_index + 1]] = lib_Empty(empty_index)]
             ELSE [g EXCEPT !.empty = e]

lib_remove_foods(g, foods_index) ==
    IF g.panicked THEN g
    ELSE IF foods_index >= Len(g.foods) THEN Panic(g)
    ELSE LET f == swap_remove(g.foods, foods_index)
         IN  IF foods_index < Len(f)
             THEN [g EXCEPT !.foods = f,
                            !.board[f[foods_index + 1]] = Food(foods_index)]
             ELSE [g EXCEPT !.foods = f]

\* get_current_snake_tail and pop_snake
pop_snake(g) ==
    IF g.panicked THEN g
    ELSE IF g.snake = <<>> THEN Panic(g)
    ELSE LET tail        == g.snake[Len(g.snake)]
             empty_index == Len(g.empty)
         IN  [g EXCEPT !.snake = SubSeq(@, 1, Len(@) - 1),
                       !.board[tail] = lib_Empty(empty_index),
                       !.empty = Append(@, tail)]

push_snake(g, head) ==
    IF g.panicked THEN g
    ELSE [g EXCEPT !.board[head] = lib_Snake,
                   !.snake = <<head>> \o @]

push_foods(g, position) ==
    IF g.panicked THEN g
    ELSE LET foods_index == Len(g.foods)
         IN  [g EXCEPT !.board[position] = Food(foods_index),
                       !.foods = Append(@, position)]

update_for_empty(g, empty_index) ==
    LET head == get_new_snake_head(g)
    IN  push_snake(pop_snake(lib_remove_empty(g, empty_index)), head)

add_food(g, word) ==
    IF g.panicked THEN [game |-> g, value |-> "Ok"]
    ELSE IF Len(g.foods) >= n_foods
    THEN [game |-> Panic(g), value |-> "Ok"]
    ELSE IF g.empty = <<>>
    THEN [game |-> g, value |-> "FoodCannotBeAdded"]
    ELSE LET empty_index == gen_range(word, Len(g.empty))
             position    == g.empty[empty_index + 1]
             g1          == lib_remove_empty([g EXCEPT !.rng = @ + 1],
                                             empty_index)
         IN  [game |-> push_foods(g1, position), value |-> "Ok"]

\* The new head is pushed on the deque; its cell is left as it is.
update_for_foods(g, foods_index, word) ==
    LET g1   == lib_remove_foods(g, foods_index)
        g2   == add_food(g1, word).game
        head == get_new_snake_head(g2)
    IN  IF g2.panicked THEN g2
        ELSE [g2 EXCEPT !.snake = <<head>> \o @]

\* GameState::iterate_turn of lib.rs; moved tells whether the head advanced.
lib_iterate_turn(g, word) ==
    IF check_status(g) # "Ok"
    THEN [game |-> g, value |-> "GameIsOver", cell |-> None, moved |-> FALSE]
    ELSE IF ~is_moving(g.velocity)
    THEN [game |-> g, value |-> "Ok", cell |-> None, moved |-> FALSE]
    ELSE LET head == get_new_snake_head(g)
             cell == g.board[head]
         IN  CASE cell.kind = "Snake" ->
                    [game |-> end_game(g), value |-> "Ok",
                     cell |-> "Snake", moved |-> FALSE]
               [] cell.kind = "Empty" ->
                    [game |-> update_for_empty(g, cell.index), value |-> "Ok",
                     cell |-> "Empty", moved |-> TRUE]
               [] cell.kind = "Food" ->
                    [game |-> update_for_foods(g, cell.index, word),
                     value |-> "Ok", cell |-> "Food", moved |-> TRUE]

\* add_food().expect("non-zero empty"), once per food
RECURSIVE lib_add_foods(_, _)
lib_add_foods(g, words) ==
    IF words = <<>> \/ g.panicked THEN g
    ELSE LET r == add_food(g, Head(words))
         IN  IF r.value # "Ok" THEN Panic(r.game)
             ELSE lib_add_foods(r.game, Tail(words))

\* Options::build of lib.rs for a valid board size
lib_build(words) ==
    lib_add_foods([status |-> Ongoing, rng |-> 0, velocity |-> <<0, 0>>,
                   board |-> get_board, snake |-> lib_get_snake,
                   empty |-> lib_get_empty, foods |-> lib_get_foods,
                   panicked |-> FALSE], words)

----------------------------------------------------------------------------
\* The state machine of lib.rs

\* The matched cell of the latest iterate_turn, the displacement of the
\* latest iterate_turn that advanced the head and that of the one before it.
LibNoTurn == [cell |-> None, velocity |-> <<0, 0>>, previous |-> <<0, 0>>]

InitLib ==
    /\ N_ROWS \in 1 .. MaxRows
    /\ N_COLS \in 1 .. MaxCols
    /\ N_ROWS * N_COLS <= LibMaxArea
    /\ n_foods \in 0 .. MaxFoods
    /\ built = "No"
    /\ board = <<>>
    /\ empty = <<>>
    /\ foods = <<>>
    /\ snake = <<>>
    /\ rng = 0
    /\ view = <<>>
    /\ panicked = FALSE
    /\ status = NoStatus
    /\ turn = LibNoTurn
    /\ probe = NoProbe
    /\ lib_velocity = <<0, 0>>
    /\ result = NoResult

LibInstall(g) ==
    /\ status' = g.status
    /\ rng' = g.rng
    /\ lib_velocity' = g.velocity
    /\ board' = g.board
    /\ snake' = g.snake
    /\ empty' = g.empty
    /\ foods' = g.foods
    /\ panicked' = g.panicked

\* Options::build: panics on an insufficient board size.
LibBuild ==
    /\ built = "No"
    /\ IF is_valid_board_size
       THEN /\ built' = "Ok"
            /\ \E words \in [1 .. n_foods -> 0 .. area - 1] :
                   LibInstall(lib_build(words))
       ELSE /\ built' = "Err"
            /\ panicked' = TRUE
            /\ UNCHANGED <<status, rng, lib_velocity, board, snake, empty,
                           foods>>
    /\ result' = [op |-> "build", direction |-> None, value |-> None]
    /\ UNCHANGED <<N_ROWS, N_COLS, n_foods, view, turn, probe>>

\* GameState::set_direction
LibSetDirection ==
    /\ built = "Ok"
    /\ ~panicked
    /\ \E direction \in Direction :
          LET r == set_direction(LibSelf, direction)
          IN  /\ LibInstall(r.game)
              /\ result' = [op |-> "set_direction", direction |-> direction,
                            value |-> r.value]
    /\ UNCHANGED <<N_ROWS, N_COLS, n_foods, built, view, turn, probe>>

\* GameState::iterate_turn
LibIterateTurn ==
    /\ built = "Ok"
    /\ ~panicked
    /\ \E word \in 0 .. area - 1 :
          LET r == lib_iterate_turn(LibSelf, word)
          IN  /\ LibInstall(r.game)
              /\ result' = [op |-> "iterate_turn", direction |-> None,
                            value |-> IF r.game.panicked THEN None
                                      ELSE r.value]
              /\ turn' = IF r.moved /\ ~r.game.panicked
                         THEN [cell     |-> r.cell,
                               velocity |-> lib_velocity,
                               previous |-> turn.velocity]
                         ELSE [turn EXCEPT !.cell = r.cell]
    /\ UNCHANGED <<N_ROWS, N_COLS, n_foods, built, view, probe>>

NextLib == LibBuild \/ LibSetDirection \/ LibIterateTurn

SpecLib == InitLib /\ [][NextLib]_vars

----------------------------------------------------------------------------
\* Properties of the core

Range(seq) == {seq[k] : k \in 1 .. Len(seq)}

NoDuplicates(seq) ==
    \A k, l \in 1 .. Len(seq) : k # l => seq[k] # seq[l]

JustBuilt == built = "Ok" /\ turn = NoTurn

\* C1: in the state Options::build returns and after every iterate_turn, the
\* cell at empty[i] is Empty(i) for every index i of empty and the cell at
\* foods[i] is Foods(i) for every index i of foods.
C1_BackReference ==
    built = "Ok" =>
        /\ \A k \in 1 .. Len(empty) :
              empty[k] \in Positions /\ board[empty[k]] = Empty(k - 1)
        /\ \A k \in 1 .. Len(foods) :
              foods[k] \in Positions /\ board[foods[k]] = Foods(k - 1)

\* A turn onto an Empty cell has swapped the vacated tail into the slot of the
\* consumed cell, in front of other empty positions, with food on the board.
C1_Witness ==
    /\ built = "Ok"
    /\ turn.cell = "Empty"
    /\ Len(empty) >= 3
    /\ Len(foods) >= 2
    /\ \E k \in 1 .. Len(empty) - 1 :
          view[1] = <<empty[k], Snake(None, None), [kind |-> "Empty"]>>

\* C2: after build and after every iterate_turn, every position of the snake
\* deque holds a Snake cell, every Snake cell of the board is in the deque,
\* and no position occurs twice in the deque.
C2_SnakeCells ==
    built = "Ok" =>
        /\ \A k \in 1 .. Len(snake) :
              snake[k] \in Positions /\ board[snake[k]].kind = "Snake"
        /\ \A p \in Positions : board[p].kind = "Snake" => p \in Range(snake)
        /\ NoDuplicates(snake)

\* The snake has grown to three segments or more and has then moved on.
C2_Witness ==
    /\ built = "Ok"
    /\ turn.cell = "Empty"
    /\ Len(snake) >= 3
    /\ \A k \in 1 .. Len(snake) : board[snake[k]].kind = "Snake"

\* C3: after build and after every iterate_turn, Board::get_snake, walking
\* the entry links from the cell with exit == None, ends after exactly
\* snake.len() - 1 hops and returns the maintained deque, head first.
C3_GetSnake ==
    built = "Ok" =>
        /\ get_snake(board) = snake
        /\ Len(snake) >= 1
        /\ board[snake[Len(snake)]].entry = None

\* The walk over a snake of four segments that has bent and moved.
C3_Witness ==
    /\ built = "Ok"
    /\ turn.cell = "Empty"
    /\ Len(snake) >= 4
    /\ get_snake(board) = snake
    /\ \E k \in 2 .. Len(snake) - 1 :
          board[snake[k]].entry # opposite(board[snake[k]].exit)

\* C4: after build and after every iterate_turn the lengths of empty, foods
\* and snake add up to N_ROWS * N_COLS, and their positions are pairwise
\* distinct and cover the board.
C4_Partition ==
    built = "Ok" =>
        /\ Len(empty) + Len(foods) + Len(snake) = N_ROWS * N_COLS
        /\ NoDuplicates(empty \o foods \o snake)
        /\ Range(empty \o foods \o snake) = Positions

\* All three lists are populated after a growth turn.
C4_Witness ==
    /\ built = "Ok"
    /\ turn.cell = "Foods"
    /\ Len(empty) >= 1
    /\ Len(foods) >= 2
    /\ Len(snake) >= 3
    /\ Len(empty) + Len(foods) + Len(snake) = N_ROWS * N_COLS

\* C5: Board::move_in is toroidal: the result is in bounds; Up gives
\* ((i - 1) mod N_ROWS, j), Down ((i + 1) mod N_ROWS, j), Left
\* (i, (j - 1) mod N_COLS), Right (i, (j + 1) mod N_COLS); Up from row 0 lands
\* on row N_ROWS - 1 and Left from column 0 on column N_COLS - 1.
C5_MoveInToroidal ==
    probe.result # <<>> =>
        LET i == probe.position[1]
            j == probe.position[2]
            d == probe.direction
            r == probe.result
        IN  /\ r \in Positions
            /\ d = "Up"    => r = <<(i - 1) % N_ROWS, j>>
            /\ d = "Down"  => r = <<(i + 1) % N_ROWS, j>>
            /\ d = "Left"  => r = <<i, (j - 1) % N_COLS>>
            /\ d = "Right" => r = <<i, (j + 1) % N_COLS>>
            /\ (d = "Up" /\ i = 0) => r = <<N_ROWS - 1, j>>
            /\ (d = "Left" /\ j = 0) => r = <<i, N_COLS - 1>>

\* Up from row 0 of a board of three rows has wrapped to the last row.
C5_Witness ==
    /\ N_ROWS = 3
    /\ probe.direction = "Up"
    /\ probe.position[1] = 0
    /\ probe.result = <<2, probe.position[2]>>

\* C6: Options::build returns Err(InvalidOptions) exactly when
\* N_ROWS * N_COLS < n_foods + 1 and otherwise Ok with a game state, and the
\* construction of a valid state does not fail while stocking the n_foods
\* food cells.
C6_BuildValidity ==
    built # "No" =>
        /\ built = "Err" <=> N_ROWS * N_COLS < n_foods + 1
        /\ built = "Ok" <=> N_ROWS * N_COLS >= n_foods + 1
        /\ JustBuilt => ~panicked /\ Len(foods) = n_foods /\ rng = n_foods

\* Options that fill the board exactly (one snake cell, the rest food) built.
C6_Witness ==
    /\ JustBuilt
    /\ n_foods >= 2
    /\ N_ROWS * N_COLS = n_foods + 1
    /\ Len(foods) = n_foods
    /\ ~panicked

\* C7: the state built from valid Options has a snake of exactly one segment
\* at (N_ROWS / 2, N_COLS / 2) whose cell is Snake{entry: None, exit: None},
\* exactly n_foods Foods cells, and every other cell Empty, so that
\* empty.len() == N_ROWS * N_COLS - 1 - n_foods.
C7_BuiltState ==
    JustBuilt =>
        LET centre == <<N_ROWS \div 2, N_COLS \div 2>>
        IN  /\ snake = <<centre>>
            /\ board[centre] = Snake(None, None)
            /\ Cardinality({p \in Positions : board[p].kind = "Foods"})
                 = n_foods
            /\ \A p \in Positions \ {centre} :
                  board[p].kind \in {"Empty", "Foods"}
            /\ Cardinality({p \in Positions : board[p].kind = "Empty"})
                 = N_ROWS * N_COLS - 1 - n_foods
            /\ Len(empty) = N_ROWS * N_COLS - 1 - n_foods

\* A freshly built 2x3 board with two food cells and three empty ones.
C7_Witness ==
    /\ JustBuilt
    /\ N_ROWS = 2
    /\ N_COLS = 3
    /\ n_foods = 2
    /\ snake = <<<<1, 1>>>>
    /\ Len(empty) = 3

\* C8: when the cell at the next head position is a Snake cell, iterate_turn
\* returns Over{is_won} with is_won = (empty is empty and foods is empty).
C8_CollisionStatus ==
    (built = "Ok" /\ turn.cell = "Snake") =>
        status = Over(empty = <<>> /\ foods = <<>>)

\* C9: once iterate_turn has returned Over{is_won}, every later call returns
\* that same value and mutates none of board, empty, foods and snake.
C9_TerminalOnceOver ==
    [][status.kind = "Over" =>
          status' = status /\ UNCHANGED <<board, empty, foods, snake>>]_vars

\* C10: a turn whose next cell is Foods returns Over{is_won: true} exactly
\* when empty and foods are both empty after the head was inserted and the
\* replacement food attempted, and Ongoing otherwise; a turn whose next cell
\* is Empty returns Ongoing; a 1x2 board built with one food is won by its
\* first turn when that turn goes Left or Right.
C10_WinDetection ==
    [][/\ turn'.cell = "Foods" =>
            status' = IF empty' = <<>> /\ foods' = <<>>
                      THEN Over(TRUE) ELSE Ongoing
       /\ turn'.cell = "Empty" => status' = Ongoing
       /\ ( /\ JustBuilt
            /\ N_ROWS = 1 /\ N_COLS = 2 /\ n_foods = 1
            /\ turn'.direction \in {"Left", "Right"} )
          => status' = Over(TRUE) /\ Len(snake') = 2]_vars

\* The last food of a 2x3 board has been eaten with no empty cell left.
C10_Witness ==
    /\ built = "Ok"
    /\ N_ROWS = 2 /\ N_COLS = 3
    /\ turn.cell = "Foods"
    /\ status = Over(TRUE)
    /\ Len(snake) = 6

\* C11: if the next head position holds a Snake cell while at least one Empty
\* or Foods cell remains on the board, iterate_turn returns
\* Over{is_won: false}.
C11_LossDetection ==
    (built = "Ok" /\ turn.cell = "Snake" /\ (empty # <<>> \/ foods # <<>>))
        => status = Over(FALSE)

\* The snake holds all cells but one and its head was sent into another of
\* its segments.
C11_Witness ==
    /\ built = "Ok"
    /\ turn.cell = "Snake"
    /\ Len(snake) >= 3
    /\ Len(snake) = N_ROWS * N_COLS - 1
    /\ turn.next_head # snake[1]
    /\ turn.next_head \in Range(snake)
    /\ status = Over(FALSE)

\* C12 as claimed: a turn whose next cell is Foods increases snake.len() by
\* exactly 1 and does not shrink empty.
C12_GrowthKeepsEmpty ==
    [][turn'.cell = "Foods" =>
          /\ Len(snake') = Len(snake) + 1
          /\ Len(empty') >= Len(empty)]_vars

\* C12 as amended: a turn whose next cell is Foods increases snake.len() by
\* exactly 1; when empty was non-empty the replacement food takes one cell of
\* it (empty.len() drops by 1, foods.len() is unchanged), and when empty was
\* empty it stays empty and foods.len() drops by 1.
C12_Growth ==
    [][turn'.cell = "Foods" =>
          /\ Len(snake') = Len(snake) + 1
          /\ empty # <<>> =>
                Len(empty') = Len(empty) - 1 /\ Len(foods') = Len(foods)
          /\ empty = <<>> =>
                empty' = <<>> /\ Len(foods') = Len(foods) - 1]_vars

\* A growth turn that placed a replacement food and left empty cells.
C12_Witness ==
    /\ built = "Ok"
    /\ turn.cell = "Foods"
    /\ turn.food = "Ok"
    /\ Len(snake) >= 3
    /\ Len(empty) >= 1
    /\ snake[1] = turn.next_head

\* C13: a turn whose next cell is Empty leaves the lengths of snake, empty and
\* foods unchanged and changes the kind of exactly two cells: the old tail
\* goes Snake -> Empty and the next position Empty -> Snake; every Foods cell
\* keeps its position.
C13_NonGrowth ==
    [][turn'.cell = "Empty" =>
          LET tail == snake[Len(snake)]
              next == turn'.next_head
          IN  /\ Len(snake') = Len(snake)
              /\ Len(empty') = Len(empty)
              /\ Len(foods') = Len(foods)
              /\ tail # next
              /\ {p \in Positions : board'[p].kind # board[p].kind}
                    = {tail, next}
              /\ board[tail].kind = "Snake" /\ board'[tail].kind = "Empty"
              /\ board[next].kind = "Empty" /\ board'[next].kind = "Snake"
              /\ foods' = foods
              /\ \A k \in 1 .. Len(foods) :
                    board'[foods[k]] = board[foods[k]]]_vars

\* A snake of three segments or more has moved on with food on the board.
C13_Witness ==
    /\ built = "Ok"
    /\ turn.cell = "Empty"
    /\ Len(snake) >= 3
    /\ Len(foods) >= 1
    /\ board[empty[Len(empty)]].kind = "Empty"
    /\ view[1][3] = [kind |-> "Empty"]
    /\ view[1][1] \in Range(empty)

\* C15: lib.rs set_direction returns Err(InvalidDirection) and keeps the
\* heading when the requested direction lies in the plane of the heading
\* (the heading itself or its opposite); a direction of the other plane, and
\* any direction while no heading is set, returns Ok and becomes the heading;
\* board, snake, empty, foods and status are never modified.
C15_SetDirectionPolicy ==
    [][result'.op = "set_direction" =>
          LET v        == from_direction(result'.direction)
              reversed == <<-lib_velocity[1], -lib_velocity[2]>>
          IN  /\ IF is_moving(lib_velocity) /\ v \in {lib_velocity, reversed}
                 THEN /\ result'.value = "InvalidDirection"
                      /\ lib_velocity' = lib_velocity
                 ELSE /\ result'.value = "Ok"
                      /\ lib_velocity' = v
              /\ UNCHANGED <<board, snake, empty, foods, status, rng>>]_vars

\* Heading Up, the request for Down was rejected and the heading is still Up.
C15_Witness ==
    /\ built = "Ok"
    /\ result.op = "set_direction"
    /\ result.direction = "Down"
    /\ result.value = "InvalidDirection"
    /\ lib_velocity = from_direction("Up")
    /\ Len(snake) >= 2

\* C16: for any interleaving of lib.rs set_direction and iterate_turn, the
\* displacement applied by an iterate_turn that advances the head is never
\* the exact opposite of the displacement applied by the previous one.
C16_NoReversal ==
    (built = "Ok" /\ is_moving(turn.previous)) =>
        turn.velocity # <<-turn.previous[1], -turn.previous[2]>>

\* C17: the lib.rs iterate_turn that finds the next head on a Snake cell
\* returns Ok(()) and sets status to Over; from then on every iterate_turn
\* returns Err(GameIsOver), status, board, snake, empty and foods stay as they
\* are, and status never returns from Over to Ongoing.
C17_AlreadyOver ==
    [][/\ (status.kind = "Ongoing" /\ status'.kind = "Over") =>
            /\ result'.op = "iterate_turn"
            /\ result'.value = "Ok"
            /\ turn'.cell = "Snake"
            /\ status' = Over(empty = <<>> /\ foods = <<>>)
       /\ (status.kind = "Ongoing" /\ result'.op = "iterate_turn"
              /\ turn'.cell = "Snake") =>
            /\ status'.kind = "Over"
            /\ result'.value = "Ok"
       /\ status.kind = "Over" =>
            /\ status' = status
            /\ UNCHANGED <<board, snake, empty, foods, rng>>
            /\ result'.op = "iterate_turn" => result'.value = "GameIsOver"]_vars

\* A snake of at least two segments ran into itself, and a later iterate_turn
\* was answered with GameIsOver.
C17_Witness ==
    /\ built = "Ok"
    /\ status.kind = "Over"
    /\ result.op = "iterate_turn"
    /\ result.value = "GameIsOver"
    /\ Len(snake) >= 2

\* C18: insert_food called when empty is empty returns Err(MaxFoods), leaves
\* board, empty, foods and rng as they were and notifies no view; the Foods
\* arm of iterate_turn discards the error, completes the turn and returns a
\* Status.
C18_FoodFailureNonFatal ==
    [][/\ (turn'.cell = "Foods" /\ empty = <<>>) => turn'.food = "MaxFoods"
       /\ (turn'.cell = "Foods" /\ empty # <<>>) => turn'.food = "Ok"
       /\ turn'.food = "MaxFoods" =>
            LET d   == turn'.direction
                mid == insert_snake_head(
                          update_last_head(get_direction(Self), d),
                          turn'.next_head, opposite(d))
            IN  /\ board' = mid.board
                /\ empty' = mid.empty
                /\ foods' = mid.foods
                /\ rng' = rng
                /\ view' = mid.view
                /\ \A k \in 1 .. Len(view') : view'[k][3].kind # "Foods"
                /\ ~panicked'
                /\ snake' = <<turn'.next_head>> \o snake
                /\ status' = IF foods' = <<>> THEN Over(TRUE) ELSE Ongoing]_vars

\* A food was eaten on a board without empty cells, no replacement could be
\* placed, and the game goes on with the food that is left.
C18_Witness ==
    /\ built = "Ok"
    /\ turn.cell = "Foods"
    /\ turn.food = "MaxFoods"
    /\ status = Ongoing
    /\ empty = <<>>
    /\ Len(foods) >= 1
    /\ Len(view) = 2

dto_Board(b) == [p \in Positions |-> dto_Cell(b[p])]

NotifiedPositions(log) == {log[k][1] : k \in 1 .. Len(log)}

TimesNotified(log, p) == Cardinality({k \in 1 .. Len(log) : log[k][1] = p})

\* The grid an observer holds after it applied the notifications of log.
RECURSIVE Replay(_, _)
Replay(replica, log) ==
    IF log = <<>> THEN replica
    ELSE Replay([replica EXCEPT ![log[1][1]] = log[1][3]], Tail(log))

\* Every notification of log reports as old what the observer holds and as
\* new something else.
RECURSIVE EachIsASwap(_, _)
EachIsASwap(replica, log) ==
    \/ log = <<>>
    \/ /\ replica[log[1][1]] = log[1][2]
       /\ log[1][2] # log[1][3]
       /\ EachIsASwap([replica EXCEPT ![log[1][1]] = log[1][3]], Tail(log))

\* C19 as claimed: during one iterate_turn swap_cell is invoked exactly once
\* for each grid slot whose content changed, never twice for one position,
\* in the order of the mutations, with old and new the slot's content before
\* and after.
C19_OncePerSlot ==
    [][turn' # turn =>
          /\ \A p \in Positions :
                TimesNotified(view', p) =
                    IF dto_Cell(board'[p]) # dto_Cell(board[p]) THEN 1 ELSE 0
          /\ \A k \in 1 .. Len(view') :
                /\ view'[k][2] = dto_Cell(board[view'[k][1]])
                /\ view'[k][3] = dto_Cell(board'[view'[k][1]])]_vars

\* C19 as amended: during one iterate_turn swap_cell is invoked once per cell
\* mutation, in the order of the mutations, with old and new the slot's
\* content before and after that mutation; every slot whose content changed
\* is notified; a position is notified twice only on a turn onto an Empty
\* cell by a snake of two segments, where it is the old head (update_next_tail
\* and then update_last_head), and none is notified three times.
C19_OncePerMutation ==
    [][ (built = "Ok" /\ (turn' # turn \/ view' # view)) =>
          /\ EachIsASwap(dto_Board(board), view')
          /\ Replay(dto_Board(board), view') = dto_Board(board')
          /\ \A p \in Positions :
                dto_Cell(board'[p]) # dto_Cell(board[p])
                    => p \in NotifiedPositions(view')
          /\ \A p \in Positions :
                /\ TimesNotified(view', p) <= 2
                /\ TimesNotified(view', p) = 2 =>
                      /\ turn'.cell = "Empty"
                      /\ Len(snake) = 2
                      /\ p = snake[1]
          /\ (turn'.cell = "Empty" /\ Len(snake) = 2)
                => TimesNotified(view', snake[1]) = 2 ]_vars

\* A snake of two segments has moved onto an Empty cell: three slots changed
\* and four notifications were sent.
C19_Witness ==
    /\ built = "Ok"
    /\ turn.cell = "Empty"
    /\ Len(snake) = 2
    /\ Len(view) = 4
    /\ view[2][1] = view[3][1]
    /\ view[2][1] = snake[2]

\* C20: iterate_turn calls Controller::get_direction exactly once per
\* invocation, before any mutation, on every kind of turn (Empty, Foods and
\* collision).
C20_OneGetDirection ==
    (built = "Ok" /\ turn # NoTurn) =>
        /\ turn.cell \in {"Empty", "Foods", "Snake"}
        /\ Len(turn.calls) >= 1
        /\ turn.calls[1] = "get_direction"
        /\ \A k \in 2 .. Len(turn.calls) : turn.calls[k] = "swap_cell"
        /\ Len(turn.calls) = 1 + Len(view)
        /\ turn.cell = "Snake" => turn.calls = <<"get_direction">>
        /\ turn.cell # "Snake" => Len(turn.calls) >= 3

\* A collision turn consulted the controller once and did nothing else.
C20_Witness ==
    /\ built = "Ok"
    /\ turn.cell = "Snake"
    /\ turn.calls = <<"get_direction">>
    /\ turn.direction \in Direction
    /\ Len(snake) >= 2

\* C21: after build and after every iterate_turn exactly one Snake cell has
\* exit = None, the head snake.front(), and exactly one has entry = None, the
\* tail snake.back(); for consecutive body positions h (nearer the head) and
\* t (nearer the tail) the cell at t has exit = Some(d) with move_in(t, d) = h
\* and the cell at h has entry = Some(d.opposite()).
C21_PathMarkers ==
    built = "Ok" =>
        /\ snake # <<>>
        /\ {p \in Positions : board[p].kind = "Snake" /\ board[p].exit = None}
              = {snake[1]}
        /\ {p \in Positions : board[p].kind = "Snake" /\ board[p].entry = None}
              = {snake[Len(snake)]}
        /\ \A k \in 1 .. Len(snake) - 1 :
              LET h == snake[k]
                  t == snake[k + 1]
              IN  /\ board[t].kind = "Snake"
                  /\ board[h].kind = "Snake"
                  /\ board[t].exit \in Direction
                  /\ move_in(t, board[t].exit) = h
                  /\ board[h].entry = opposite(board[t].exit)

\* A snake of three segments or more with a bend in its second segment.
C21_Witness ==
    /\ built = "Ok"
    /\ turn # NoTurn
    /\ Len(snake) >= 3
    /\ board[snake[2]].kind = "Snake"
    /\ board[snake[2]].entry \in Direction
    /\ board[snake[2]].exit \in Direction
    /\ board[snake[2]].entry # opposite(board[snake[2]].exit)

\* C22: when a snake of one segment moves onto an Empty cell, the new head
\* cell is Snake{entry: None, exit: None}, the previous head cell becomes
\* Empty and the snake still has exactly one segment.
C22_SingleSegmentMove ==
    [][(turn'.cell = "Empty" /\ Len(snake) = 1) =>
          /\ board'[turn'.next_head] = Snake(None, None)
          /\ turn'.next_head # snake[1]
          /\ board[snake[1]].kind = "Snake"
          /\ board'[snake[1]].kind = "Empty"
          /\ snake' = <<turn'.next_head>>
          /\ status' = Ongoing
          /\ ~panicked']_vars

\* A single segment has moved onto an Empty cell while food is on the board.
C22_Witness ==
    /\ built = "Ok"
    /\ turn.cell = "Empty"
    /\ Len(snake) = 1
    /\ snake[1] = turn.next_head
    /\ board[snake[1]] = Snake(None, None)
    /\ foods # <<>>

\* C23: after a turn onto an Empty cell the vacated tail position sits in
\* empty at the index the consumed cell (the new head position) held before
\* the turn and its cell stores that index; every other empty position keeps
\* its place and its cell.
C23_IndexReuse ==
    [][turn'.cell = "Empty" =>
          LET tail == snake[Len(snake)]
              next == turn'.next_head
              idx  == board[next].index
          IN  /\ empty[idx + 1] = next
              /\ Len(empty') = Len(empty)
              /\ empty'[idx + 1] = tail
              /\ board'[tail] = Empty(idx)
              /\ \A k \in 1 .. Len(empty) :
                    k # idx + 1 => /\ empty'[k] = empty[k]
                                   /\ board'[empty[k]] = board[empty[k]]]_vars

\* The position vacated by the latest Empty turn (the first notification of
\* the turn) sits in empty before other positions and carries its index.
C23_Witness ==
    /\ built = "Ok"
    /\ turn.cell = "Empty"
    /\ Len(view) >= 2
    /\ \E k \in 1 .. Len(empty) - 1 :
          /\ empty[k] = view[1][1]
          /\ board[empty[k]] = Empty(k - 1)

\* C24 as claimed: on a turn onto an Empty cell next is removed from empty
\* first and the old tail is pushed afterwards, so after the turn the vacated
\* tail position is the last element of empty and its cell stores
\* empty.len() - 1.
C24_TailLast ==
    [][turn'.cell = "Empty" =>
          LET tail == snake[Len(snake)]
          IN  /\ empty'[Len(empty')] = tail
              /\ board'[tail] = Empty(Len(empty') - 1)]_vars

\* C24 as amended: on a turn onto an Empty cell the old tail is removed and
\* pushed to empty first (the first notification of the turn) and next is
\* swap-removed from empty afterwards (the last notification), which moves
\* the tail into the slot of next; the vacated tail position is the last
\* element of empty, with index empty.len() - 1 in its cell, exactly when
\* next held the last index of empty before the turn.
C24_TailPushedFirst ==
    [][turn'.cell = "Empty" =>
          LET tail == snake[Len(snake)]
              next == turn'.next_head
              idx  == board[next].index
              last == Len(view')
          IN  /\ last >= 2
              /\ view'[1] = <<tail, dto_Cell(board[tail]), [kind |-> "Empty"]>>
              /\ view'[last][1] = next
              /\ view'[last][2] = [kind |-> "Empty"]
              /\ view'[last][3].kind = "Snake"
              /\ (empty'[Len(empty')] = tail) <=> (idx = Len(empty) - 1)
              /\ (board'[tail].index = Len(empty') - 1)
                    <=> (idx = Len(empty) - 1)]_vars

\* A snake of two segments or more has moved onto an Empty cell and its
\* vacated tail position is not the last element of empty.
C24_Witness ==
    /\ built = "Ok"
    /\ turn.cell = "Empty"
    /\ Len(snake) >= 2
    /\ Len(empty) >= 2
    /\ view[1][3] = [kind |-> "Empty"]
    /\ empty[Len(empty)] # view[1][1]

\* C25: on a turn onto a Foods cell with direction d the old head cell keeps
\* its entry and gets exit = Some(d), the new head cell becomes
\* Snake{entry: Some(d.opposite()), exit: None} and is pushed to the front of
\* the deque, and the tail is not removed: for a snake of two segments or
\* more snake.back() and its cell are unchanged.
C25_GrowthMarkers ==
    [][turn'.cell = "Foods" =>
          LET d    == turn'.direction
              old  == snake[1]
              next == turn'.next_head
              tail == snake[Len(snake)]
          IN  /\ board[old].kind = "Snake"
              /\ board'[old] = Snake(board[old].entry, d)
              /\ board'[next] = Snake(opposite(d), None)
              /\ snake' = <<next>> \o snake
              /\ Len(snake) >= 2 =>
                    /\ snake'[Len(snake')] = tail
                    /\ board'[tail] = board[tail]]_vars

\* A snake that had two segments or more has eaten: the cell behind the new
\* head has an entry and the exit of the turn's direction.
C25_Witness ==
    /\ built = "Ok"
    /\ turn.cell = "Foods"
    /\ Len(snake) >= 3
    /\ board[snake[2]].kind = "Snake"
    /\ board[snake[2]].entry \in Direction
    /\ board[snake[2]].exit = turn.direction
    /\ board[snake[1]] = Snake(opposite(turn.direction), None)

\* The effect of one insert_food on a state whose empty list is e and whose
\* board is b, as seen in the lists and the board after it: one position p
\* left empty by swap-remove, with the moved position's cell patched, p is
\* the last of foods and its cell carries foods.len() - 1, p was Empty in b,
\* and apart from except no other cell changed kind.
FoodPlaced(b, e, except) ==
    \E i \in 1 .. Len(e) :
        LET p == e[i]
        IN  /\ b[p].kind = "Empty"
            /\ Len(empty') = Len(e) - 1
            /\ \A k \in 1 .. Len(e) - 1 :
                  /\ k # i => empty'[k] = e[k]
                  /\ k = i => empty'[k] = e[Len(e)]
                  /\ board'[empty'[k]] = Empty(k - 1)
            /\ foods' # <<>>
            /\ foods'[Len(foods')] = p
            /\ board'[p] = Foods(Len(foods') - 1)
            /\ {q \in Positions : board'[q].kind # b[q].kind} \ except = {p}
            /\ view'[Len(view')] = <<p, [kind |-> "Empty"], [kind |-> "Foods"]>>

\* C26: insert_food with a non-empty empty list removes exactly one position
\* p from empty by swap-remove, patching the index of the position moved into
\* its slot, appends p as the last element of foods and sets its cell to
\* Foods(foods.len() - 1); p held an Empty cell before and no other cell
\* changes kind.  Checked for the insert_food of a Foods turn and for the one
\* of a build with n_foods = 1.
C26_FoodPlacement ==
    [][/\ (turn'.cell = "Foods" /\ empty # <<>>) =>
            /\ turn'.food = "Ok"
            /\ FoodPlaced(board, empty, {turn'.next_head})
            /\ Len(foods') = Len(foods)
       /\ (built = "No" /\ built' = "Ok" /\ n_foods = 1) =>
            /\ FoodPlaced(Board_default, get_empty(Board_default), {})
            /\ Len(foods') = 1]_vars

\* A Foods turn placed a replacement food: the last element of foods is the
\* position of the turn's last notification and carries the last index.
C26_Witness ==
    /\ built = "Ok"
    /\ turn.cell = "Foods"
    /\ turn.food = "Ok"
    /\ Len(foods) >= 2
    /\ empty # <<>>
    /\ view[Len(view)] = <<foods[Len(foods)], [kind |-> "Empty"],
                           [kind |-> "Foods"]>>
    /\ board[foods[Len(foods)]] = Foods(Len(foods) - 1)

\* C27: a turn onto an Empty cell, a collision turn and a Foods turn taken
\* when no empty cell is left all leave rng unchanged; a Foods turn with at
\* least one empty cell draws from rng exactly once.
C27_RngOnlyForFood ==
    [][/\ turn'.cell = "Empty" => rng' = rng
       /\ turn'.cell = "Snake" => rng' = rng
       /\ (turn'.cell = "Foods" /\ empty = <<>>) => rng' = rng
       /\ (turn'.cell = "Foods" /\ empty # <<>>) => rng' = rng + 1]_vars

\* Two foods were replaced since the build and the latest turn, onto an Empty
\* cell, left the generator alone.
C27_Witness ==
    /\ built = "Ok"
    /\ turn.cell = "Empty"
    /\ rng = n_foods + 2
    /\ Len(snake) = 3

\* C28: Board::from(dto grid) assigns the Empty indices and the Foods indices
\* 0, 1, 2, ... in row-major scan order, so that the lists State::new takes
\* from the converted board satisfy the back-reference invariant
\* (get_empty()[i] is the cell carrying Empty(i), get_foods()[i] the cell
\* carrying Foods(i)); converting every cell back with dto::Cell::from gives
\* the original dto grid.
C28_FromDto ==
    (probe.result # <<>>) =>
        LET b == probe.result
            e == get_empty(b)
            f == get_foods(b)
        IN  /\ DOMAIN b = Positions
            /\ \A i \in 1 .. Len(e) : b[e[i]] = Empty(i - 1)
            /\ \A i \in 1 .. Len(f) : b[f[i]] = Foods(i - 1)
            /\ Len(e) = Cardinality({p \in Positions :
                                        probe.grid[p].kind = "Empty"})
            /\ Len(f) = Cardinality({p \in Positions :
                                        probe.grid[p].kind = "Foods"})
            /\ \A k, l \in 1 .. Len(RowMajor) :
                  (k < l /\ b[RowMajor[k]].kind = b[RowMajor[l]].kind
                         /\ b[RowMajor[k]].kind # "Snake")
                      => b[RowMajor[k]].index < b[RowMajor[l]].index
            /\ [p \in Positions |-> dto_Cell(b[p])] = probe.grid

\* A converted grid of two rows or more in which food comes first, the
\* Empty indices run on from the first row into the second and a Snake cell
\* lies between.
C28_Witness ==
    /\ N_ROWS >= 2
    /\ N_COLS >= 3
    /\ probe.result # <<>>
    /\ probe.result[<<0, 0>>] = Foods(0)
    /\ probe.result[<<0, 1>>] = Empty(0)
    /\ probe.result[<<0, 2>>].kind = "Snake"
    /\ probe.result[<<1, 0>>] = Empty(1)
    /\ probe.result[<<1, 1>>] = Foods(1)

\* C29: in the state lib.rs Options::build returns, for every valid shape,
\* board[empty[i]] = Empty(i) for every i < empty.len(), board[foods[i]] =
\* Food(i) for every i < foods.len(), and exactly one cell, the head at
\* [n_rows / 2, n_cols / 2], is Snake.
C29_LibBuildBackReference ==
    (built = "Ok" /\ result.op = "build" /\ ~panicked) =>
        /\ \A i \in 1 .. Len(empty) : board[empty[i]] = lib_Empty(i - 1)
        /\ \A i \in 1 .. Len(foods) : board[foods[i]] = Food(i - 1)
        /\ {p \in Positions : board[p].kind = "Snake"} = {get_head}

\* C30: after any sequence of set_direction and iterate_turn calls on a state
\* built by lib.rs Options::build, every position of the snake deque holds
\* CellWithMetadata::Snake on the board and no position occurs twice in the
\* deque.
C30_LibSnakeCells ==
    (built = "Ok" /\ ~panicked) =>
        /\ \A k \in 1 .. Len(snake) : board[snake[k]].kind = "Snake"
        /\ NoDuplicates(snake)

\* C31: from any state built by Options::build and for any sequence of
\* controller directions, calls after an Over result included, the assert_eq!
\* of remove_empty and remove_foods and the panic! and expect paths of
\* remove_last_tail, update_next_tail, update_last_head and insert_snake_head
\* are never triggered.
C31_NoFailFast ==
    /\ ~panicked
    /\ built = "Ok" => snake # <<>>

\* A turn that went through update_last_head, insert_snake_head with
\* remove_foods and insert_food on a snake of three segments or more.
C31_Witness ==
    /\ built = "Ok"
    /\ ~panicked
    /\ turn.cell = "Foods"
    /\ turn.food = "Ok"
    /\ Len(turn.calls) = 4
    /\ Len(snake) >= 4

\* Every notification of log reports as old what the observer holds.
RECURSIVE FindsOld(_, _)
FindsOld(replica, log) ==
    \/ log = <<>>
    \/ /\ replica[log[1][1]] = log[1][2]
       /\ FindsOld([replica EXCEPT ![log[1][1]] = log[1][3]], Tail(log))

\* C32: a view that starts from the dto projection of the board before the
\* food stocking of the construction and applies every swap_cell(position,
\* old, new) as replica[position] := new finds replica[position] = old at
\* every notification, and after the construction and after every
\* iterate_turn its replica is the dto projection of the board.  Stated per
\* operation: the replica that equals the projection before an operation
\* equals it after.
C32_ObserverConsistency ==
    [][(built' = "Ok" /\ ~panicked') =>
          LET replica == IF built = "No" THEN dto_Board(Board_default)
                         ELSE dto_Board(board)
          IN  /\ FindsOld(replica, view')
              /\ Replay(replica, view') = dto_Board(board')]_vars

\* The observer has followed a growth turn: the old head's exit, the new
\* head and the replacement food.
C32_Witness ==
    /\ built = "Ok"
    /\ turn.cell = "Foods"
    /\ Len(view) = 3
    /\ view[1][2].kind = "Snake"
    /\ view[2][2] = [kind |-> "Foods"]
    /\ view[3][3] = [kind |-> "Foods"]
    /\ dto_Board(board)[view[3][1]] = [kind |-> "Foods"]

\* C33: when the next head position holds a Snake cell, iterate_turn leaves
\* board, empty, foods, snake and rng exactly as they were and sends no view
\* notification; only the controller has been consulted.
C33_CollisionNoEffect ==
    [][turn'.cell = "Snake" =>
          /\ board[turn'.next_head].kind = "Snake"
          /\ UNCHANGED <<board, empty, foods, snake, rng>>
          /\ view' = <<>>
          /\ turn'.calls = <<"get_direction">>
          /\ ~panicked']_vars

\* A snake of three segments or more ran into itself with free cells left.
C33_Witness ==
    /\ built = "Ok"
    /\ turn.cell = "Snake"
    /\ view = <<>>
    /\ Len(snake) >= 3
    /\ empty # <<>>
    /\ foods # <<>>

\* C34: in every state reachable from Options::build with n_foods requested,
\* foods.len() <= n_foods and foods.len() = n_foods whenever empty is
\* non-empty; foods.len() drops only when the empty list is empty, and the
\* empty list never grows after the build.
C34_FoodCount ==
    [][built' = "Ok" =>
          /\ Len(foods') <= n_foods
          /\ empty' # <<>> => Len(foods') = n_foods
          /\ built = "Ok" =>
                /\ Len(empty') <= Len(empty)
                /\ Len(foods') < Len(foods) => (empty = <<>> /\ empty' = <<>>)
                /\ Len(foods') >= Len(foods) - 1]_vars

\* The board has run out of empty cells and a food was eaten without a
\* replacement: fewer foods than requested are left.
C34_Witness ==
    /\ built = "Ok"
    /\ empty = <<>>
    /\ foods # <<>>
    /\ Len(foods) < n_foods
    /\ turn.food = "MaxFoods"

\* C35: for a snake of two segments or more whose next head position is the
\* position held by snake.back(), the target cell is inspected before the
\* tail is vacated: the turn matches a Snake cell, leaves the snake and the
\* board as they are, and returns Over{is_won: false} while an Empty or Foods
\* cell remains.
C35_TailCellCollision ==
    [][(built = "Ok" /\ Len(snake) >= 2
           /\ turn'.next_head = snake[Len(snake)]) =>
          /\ turn'.cell = "Snake"
          /\ snake' = snake
          /\ board' = board
          /\ empty' = empty
          /\ (empty # <<>> \/ foods # <<>>) => status' = Over(FALSE)]_vars

\* A snake of three segments or more has run into the cell of its tail
\* with free cells on the board.
C35_Witness ==
    /\ built = "Ok"
    /\ turn.cell = "Snake"
    /\ Len(snake) >= 3
    /\ turn.next_head = snake[Len(snake)]
    /\ status = Over(FALSE)
    /\ empty # <<>>

\* C36: with n_foods = 0, for every board size and every direction sequence,
\* snake.len() stays 1, foods stays empty and iterate_turn never returns
\* Over{is_won: true}.
C36_NoFoodNoWin ==
    (built = "Ok" /\ n_foods = 0) =>
        /\ Len(snake) = 1
        /\ foods = <<>>
        /\ Len(empty) = area - 1
        /\ ~(status.kind = "Over" /\ status.is_won)

\* A game without food on a board with free cells: the single segment has
\* moved away from the centre and the latest turn ended in a collision.
C36_Witness ==
    /\ built = "Ok"
    /\ n_foods = 0
    /\ turn.cell = "Snake"
    /\ status = Over(FALSE)
    /\ Len(empty) >= 2
    /\ snake[1] # <<N_ROWS \div 2, N_COLS \div 2>>

\* C37: on a board with N_ROWS = 1 a turn with direction Up or Down, and on a
\* board with N_COLS = 1 a turn with direction Left or Right, computes a next
\* head equal to the current head, matches the Snake cell of the head and
\* returns Over{is_won: false} with board, empty, foods, snake and rng
\* unchanged.
C37_DegenerateAxis ==
    [][(/\ built = "Ok"
        /\ \/ N_ROWS = 1 /\ turn'.direction \in {"Up", "Down"}
           \/ N_COLS = 1 /\ turn'.direction \in {"Left", "Right"}) =>
          /\ turn'.next_head = snake[1]
          /\ turn'.cell = "Snake"
          /\ status' = Over(FALSE)
          /\ UNCHANGED <<board, empty, foods, snake, rng>>]_vars

\* A single-segment snake on a one-row board with free cells has been sent
\* Up and the game is over.
C37_Witness ==
    /\ built = "Ok"
    /\ N_ROWS = 1
    /\ N_COLS >= 2
    /\ turn.direction = "Up"
    /\ turn.cell = "Snake"
    /\ turn.next_head = snake[1]
    /\ Len(snake) = 1
    /\ empty # <<>>
    /\ status = Over(FALSE)

\* C38: for every in-bounds position p and direction d,
\* move_in(move_in(p, d), d.opposite()) = p; for a fixed d the map
\* p -> move_in(p, d) maps the board positions one-to-one onto themselves;
\* d.opposite().opposite() = d and d.opposite() has the plane of d.
C38_MoveInInvertible ==
    /\ probe.result # <<>> =>
          /\ probe.result = move_in(probe.position, probe.direction)
          /\ move_in(probe.result, opposite(probe.direction)) = probe.position
    /\ \A d \in Direction :
          /\ \A p \in Positions : move_in(p, d) \in Positions
          /\ \A p, q \in Positions : move_in(p, d) = move_in(q, d) => p = q
          /\ \A p \in Positions : move_in(move_in(p, d), opposite(d)) = p
          /\ opposite(opposite(d)) = d
          /\ get_plane(opposite(d)) = get_plane(d)

\* move_in has wrapped from the last row to the first on a board of two rows
\* or more.
C38_Witness ==
    /\ N_ROWS >= 2
    /\ probe.direction = "Down"
    /\ probe.position[1] = N_ROWS - 1
    /\ probe.result # <<>>
    /\ probe.result[1] = 0

\* C39: an iterate_turn of lib.rs called while the velocity is [0, 0] and the
\* status is Ongoing returns Ok(()) and leaves board, snake, empty, foods, rng,
\* status and the velocity unchanged.
C39_LibNoHeadingNoOp ==
    [][(/\ built = "Ok"
        /\ result'.op = "iterate_turn"
        /\ lib_velocity = <<0, 0>>
        /\ status = Ongoing) =>
          /\ result'.value = "Ok"
          /\ ~panicked'
          /\ UNCHANGED <<board, snake, empty, foods, rng, status,
                         lib_velocity>>]_vars

\* iterate_turn has returned Ok(()) on a stocked board whose snake has no
\* heading yet.
C39_Witness ==
    /\ built = "Ok"
    /\ result.op = "iterate_turn"
    /\ result.value = "Ok"
    /\ lib_velocity = <<0, 0>>
    /\ status = Ongoing
    /\ foods # <<>>
    /\ Len(snake) = 1

====
